---- MODULE Spec2Model ----
(***************************************************************************)
(* State-machine model of src/app.py: the MQTT subscriber thread           *)
(* (start_mqtt and the callbacks on_connect, on_message, on_disconnect),   *)
(* the shared dictionary latest_data, and the Kivy clock callback          *)
(* AgriDashboard.update_dashboard that polls it from the UI thread.        *)
(*                                                                         *)
(* Conventions.  Sensor values and percentages are fixed-point numbers in  *)
(* tenths (29.9 is 299).  Class probabilities are in ten-thousandths       *)
(* (0.8734 is 8734).  time.time() is a whole number of seconds.  A Python  *)
(* value is a record tagged by its type in field k.  Every write to        *)
(* latest_data made by on_message is one step of the subscriber thread, so *)
(* that the UI thread can run between any two of them: the two threads     *)
(* share no lock in the source.                                            *)
(***************************************************************************)
EXTENDS Integers, Sequences, FiniteSets, TLC

\* ------------------------------------------------------------ constants

\* deque(maxlen=50)
MAXLEN == 50
\* SOIL_MOISTURE_THRESHOLD = 30.0, in tenths
SOIL_MOISTURE_THRESHOLD == 300
\* data.get('soil_moisture_percent', 100), in tenths
SOIL_DEFAULT_IN_CHECK == 1000
\* time.sleep(5)
RETRY_DELAY == 5
\* time_since_last < 5
LIVE_WINDOW == 5

\* --------------------------------------------------------------- bounds

\* The clock stops at MaxTime seconds.
MaxTime == 10
\* Spec and SpecIngest deliver messages while the histories hold fewer than MaxHist entries.
MaxHist == 2
\* In SpecIngest the clock stops at MaxShortTime seconds.
MaxShortTime == 2
\* SpecPoll and SpecTimed do while they hold fewer than MaxPollHist.
MaxPollHist == 1
\* SpecFifo delivers the records numbered 1 to MaxSerial.
MaxSerial == 52

\* -------------------------------------------------------- Python values

None == [k |-> "None"]

Num(n) == [k |-> "num", v |-> n]

Str == [k |-> "str"]

\* A dict parsed from a JSON object: f maps the keys present to their values.
Obj(f) == [k |-> "obj", f |-> f]

\* Text that json.loads rejects (truncated or otherwise invalid JSON).
Invalid == [k |-> "invalid"]

\* The outcome of an operation that raised an exception.
Raise == [k |-> "raise"]

EmptyDict == Obj([x \in {} |-> None])

\* bool(value), as `if data:` evaluates it
Truthy(v) ==
    CASE v.k = "None" -> FALSE
      [] v.k = "num" -> v.v # 0
      [] v.k = "obj" -> DOMAIN v.f # {}
      [] OTHER -> TRUE

\* data.get(key, default): AttributeError unless data is a dict
Get(data, key, default) ==
    IF data.k # "obj" THEN Raise
    ELSE IF key \in DOMAIN data.f THEN data.f[key] ELSE default

\* soil_moisture <= SOIL_MOISTURE_THRESHOLD: a reading at the threshold asks for water
LessThanOrEqual(v, bound) ==
    IF v.k = "num" THEN [k |-> "bool", v |-> (v.v <= bound)] ELSE Raise

\* soil_moisture < SOIL_MOISTURE_THRESHOLD: TypeError for str and None
LessThan(v, bound) ==
    IF v.k = "num" THEN [k |-> "bool", v |-> (v.v < bound)] ELSE Raise

JsonLoadsLenient(payload) ==
    IF ~payload.utf8 \/ payload.json = Invalid THEN None ELSE payload.json

\* msg.payload.decode() then json.loads: UnicodeDecodeError for bytes that are
\* not UTF-8, JSONDecodeError for text that is not JSON, else the parsed value
\* (JSON null parses to None).
JsonLoads(payload) ==
    IF ~payload.utf8 THEN Raise
    ELSE IF payload.json = Invalid THEN Raise
    ELSE payload.json

\* time.strftime("%H:%M:%S")
StrfTime(t) == <<(t \div 3600) % 24, (t \div 60) % 60, t % 60>>

DequeAppendUnbounded(q, x) == Append(q, x)

\* a bounded buffer that makes room by dropping its newest entry
DequeAppendDropNewest(q, x) ==
    IF Len(q) < MAXLEN THEN Append(q, x) ELSE Append(SubSeq(q, 1, Len(q) - 1), x)

\* deque(maxlen=MAXLEN).append(x): a full deque drops its oldest entry
DequeAppend(q, x) ==
    IF Len(q) < MAXLEN THEN Append(q, x) ELSE Append(Tail(q), x)

\* int(probability[1] * 1000) / 10: the digits after the first decimal dropped
Round1Truncating(p) == p \div 10

\* round(probability[1] * 100, 1): ten-thousandths to tenths of a percent
\* (the probabilities drawn below are never an exact tie)
Round1(p) == (p + 5) \div 10

\* f"{value:.1f}": ValueError for a str, TypeError for None
Format1f(v) == IF v.k = "num" THEN v ELSE Raise

\* ------------------------------------------------------------- payloads

Fields == {"temperature_C", "humidity_percent", "pressure_hPa", "soil_moisture_percent"}

HistoryKeys == Fields \cup {"timestamps"}

Text(j) == [utf8 |-> TRUE, json |-> j]

\* a complete reading, soil below the threshold
DryReading ==
    Obj([x \in Fields |->
        CASE x = "temperature_C" -> Num(251)
          [] x = "humidity_percent" -> Num(604)
          [] x = "pressure_hPa" -> Num(10132)
          [] x = "soil_moisture_percent" -> Num(299)])

\* a reading without the soil field, soil-less sensors
NoSoilReading == Obj([x \in {"temperature_C", "humidity_percent"} |->
        IF x = "temperature_C" THEN Num(187) ELSE Num(550)])

\* the soil field is a string
SoilStrReading == Obj([x \in {"temperature_C", "soil_moisture_percent"} |->
        IF x = "temperature_C" THEN Num(251) ELSE Str])

\* the temperature field is a string, the soil field a number
TempStrReading == Obj([x \in {"temperature_C", "soil_moisture_percent"} |->
        IF x = "temperature_C" THEN Str ELSE Num(450)])

WellFormedPayloads == {Text(DryReading), Text(NoSoilReading), Text(EmptyDict)}

WrongTypePayloads == {Text(SoilStrReading), Text(TempStrReading)}

NonObjectPayloads == {Text(Num(7)), Text(None)}

UnparseablePayloads == {Text(Invalid), [utf8 |-> FALSE, json |-> Invalid]}

Payloads ==
    WellFormedPayloads \cup WrongTypePayloads \cup NonObjectPayloads
        \cup UnparseablePayloads

\* a complete reading with soil moisture v
SoilReading(v) == Obj([DryReading.f EXCEPT !["soil_moisture_percent"] = Num(v)])

\* soil moistures around the threshold (29.9, 30.0, 30.1) and outside the
\* physical range (-5.0, 120.0)
BoundarySoils == {-50, 299, 300, 301, 1200}

ThresholdPayloads == {Text(SoilReading(v)) : v \in BoundarySoils}

\* the n-th record of a numbered stream: every field carries n (in tenths)
SerialReading(n) == Obj([x \in Fields |-> Num(n)])

NoMsg == [utf8 |-> TRUE, json |-> [k |-> "nomsg"]]

\* What model.predict / model.predict_proba give for one record: the class
\* and the probability of class 1, or an exception.
ClassifierOutcomes == {Raise, [k |-> "ok", cls |-> 1, p1 |-> 8734], [k |-> "ok", cls |-> 0, p1 |-> 1266]}

\* Probabilities of class 1 over the whole range: 0, 0.1266, 0.873, 0.8734, 1.
GradedP1 == {0, 1266, 8730, 8734, 10000}

\* predict and predict_proba are two calls on an opaque model: every class
\* with every probability, or an exception.
GradedOutcomes ==
    {Raise} \cup {[k |-> "ok", cls |-> c, p1 |-> q] : c \in {0, 1}, q \in GradedP1}

\* ---------------------------------------------------------------- state

VARIABLES
    latest_data,    \* the global dictionary
    model_loaded,   \* model is not None
    now,            \* time.time()
    mqtt_pc,        \* where the subscriber thread is
    msg,            \* the payload on_message is handling
    at_entry,       \* latest_data when on_message was entered
    probability,    \* on_message's local: predict_proba(df)[0][1], or Raise
    conn,           \* the client's connection: closed, tcp, up, refused
    subscriptions,  \* subscriptions to TOPIC the broker holds for this program
    wake_at,        \* when time.sleep(5) returns
    poll_pc,        \* where update_dashboard is
    p,              \* update_dashboard's locals
    ui,             \* what the widgets show
    published,      \* the shared fields as they were when a callback last returned
    cands,          \* the values of published during the poll in progress
    interleaved     \* the subscriber thread or the clock moved since the poll began

vars == <<latest_data, model_loaded, now, mqtt_pc, msg, at_entry, probability,
          conn, subscriptions, wake_at, poll_pc, p, ui, published, cands,
          interleaved>>

mqttLocals == <<msg, at_entry, probability>>
netVars == <<conn, subscriptions, wake_at>>
pollVars == <<poll_pc, p, ui>>
ghostVars == <<published, cands>>

NoEntry == [k |-> "noentry"]

\* ------------------------------------------------------------------ Init

EmptyHistory == [x \in HistoryKeys |-> <<>>]

InitialData ==
    [data |-> None, timestamp |-> None, connected |-> FALSE,
     prediction |-> "N/A", probability |-> 0, water_needed |-> FALSE,
     history |-> EmptyHistory]

PollIdle ==
    [data |-> None, prediction |-> "", probability |-> 0, timestamp |-> None,
     time_since_last |-> 0, x_len |-> 0]

InitialUi ==
    [status |-> "Initializing", sensors |-> None, prediction |-> "Analyzing",
     probability |-> 0, chart |-> "empty"]

\* The fields one poll reads, as a tuple.
Snap(d) == <<d.data, d.timestamp, d.prediction, d.probability>>

Init ==
    /\ latest_data = InitialData
    /\ model_loaded \in BOOLEAN
    /\ now = 0
    /\ mqtt_pc = "s162"
    /\ msg = NoMsg
    /\ at_entry = NoEntry
    /\ probability = None
    /\ conn = "closed"
    /\ subscriptions = 0
    /\ wake_at = 0
    /\ poll_pc = "idle"
    /\ p = PollIdle
    /\ ui = InitialUi
    /\ published = Snap(InitialData)
    /\ cands = {}
    /\ interleaved = FALSE

\* A step of the subscriber thread or of the clock, seen from the poll.
Interfere == interleaved' = (interleaved \/ poll_pc # "idle")


\* ------------------------------------------------- the subscriber thread

Idle == {"s162", "s166", "s167", "s170"}

InHandler == mqtt_pc \notin Idle

PollActive == poll_pc \notin {"idle", "done"}

\* A callback returns: the shared fields, as they stand, are what it leaves.
Publish(d) ==
    /\ published' = Snap(d)
    /\ cands' = IF poll_pc # "idle" THEN cands \cup {Snap(d)} ELSE cands

\* client = mqtt.Client(...); the callbacks are set.  The client object of
\* the previous round is released, which closes its socket.
StartMqtt_NewClient ==
    /\ mqtt_pc = "s162"
    /\ mqtt_pc' = "s166"
    /\ conn' = "closed"
    /\ subscriptions' = 0
    /\ Interfere
    /\ UNCHANGED <<latest_data, model_loaded, now, mqttLocals, wake_at, pollVars, ghostVars>>

\* client.connect(BROKER, PORT, keepalive=60) returns
StartMqtt_Connect ==
    /\ mqtt_pc = "s166"
    /\ mqtt_pc' = "s167"
    /\ conn' = "tcp"
    /\ Interfere
    /\ UNCHANGED <<latest_data, model_loaded, now, mqttLocals, subscriptions, wake_at, pollVars, ghostVars>>

\* except Exception: print(...); time.sleep(5) is entered
EnterSleep ==
    /\ now + RETRY_DELAY <= MaxTime
    /\ mqtt_pc' = "s170"
    /\ wake_at' = now + RETRY_DELAY

\* client.connect raises (broker unreachable)
StartMqtt_ConnectFail ==
    /\ mqtt_pc = "s166"
    /\ EnterSleep
    /\ Interfere
    /\ UNCHANGED <<latest_data, model_loaded, now, mqttLocals, conn, subscriptions, pollVars, ghostVars>>

\* an exception leaves client.loop_forever() (a malformed packet, an error
\* raised inside the network loop)
StartMqtt_LoopRaise ==
    /\ mqtt_pc = "s167"
    /\ EnterSleep
    /\ Interfere
    /\ UNCHANGED <<latest_data, model_loaded, now, mqttLocals, conn, subscriptions, pollVars, ghostVars>>

StartMqtt_WakeAndStop ==
    /\ mqtt_pc = "s170"
    /\ now >= wake_at
    /\ mqtt_pc' = "stopped"
    /\ Interfere
    /\ UNCHANGED <<latest_data, model_loaded, now, mqttLocals, netVars, pollVars, ghostVars>>

\* time.sleep(5) returns and the while loop starts over
StartMqtt_Wake ==
    /\ mqtt_pc = "s170"
    /\ now >= wake_at
    /\ mqtt_pc' = "s162"
    /\ Interfere
    /\ UNCHANGED <<latest_data, model_loaded, now, mqttLocals, netVars, pollVars, ghostVars>>

\* loop_forever opens the connection again after it was lost
Loop_Reconnect ==
    /\ mqtt_pc = "s167"
    /\ conn = "closed"
    /\ conn' = "tcp"
    /\ Interfere
    /\ UNCHANGED <<latest_data, model_loaded, now, mqtt_pc, mqttLocals, subscriptions, wake_at, pollVars, ghostVars>>

OnConnectSubscribeTwice(rc) ==
    /\ latest_data' = [latest_data EXCEPT !.connected = (rc = 0)]
    /\ subscriptions' = IF rc = 0 THEN subscriptions + 2 ELSE subscriptions
    /\ conn' = IF rc = 0 THEN "up" ELSE "refused"

\* on_connect that does not look at rc before it sets the flag
OnConnectIgnoringRc(rc) ==
    /\ latest_data' = [latest_data EXCEPT !.connected = TRUE]
    /\ subscriptions' = IF rc = 0 THEN subscriptions + 1 ELSE subscriptions
    /\ conn' = IF rc = 0 THEN "up" ELSE "refused"

\* on_connect(client, userdata, flags, rc)
OnConnect(rc) ==
    /\ latest_data' = [latest_data EXCEPT !.connected = (rc = 0)]
    /\ subscriptions' = IF rc = 0 THEN subscriptions + 1 ELSE subscriptions
    /\ conn' = IF rc = 0 THEN "up" ELSE "refused"

\* the broker's CONNACK arrives and loop_forever calls on_connect
Loop_OnConnect ==
    /\ mqtt_pc = "s167"
    /\ conn = "tcp"
    /\ \E rc \in {0, 5} : OnConnect(rc)
    /\ Interfere
    /\ UNCHANGED <<model_loaded, now, mqtt_pc, mqttLocals, wake_at, pollVars, ghostVars>>

\* a disconnect handler that also forgets when the last message came
OnDisconnectClearing ==
    latest_data' = [latest_data EXCEPT !.connected = FALSE, !.timestamp = None]

\* on_disconnect(client, userdata, rc)
OnDisconnect == latest_data' = [latest_data EXCEPT !.connected = FALSE]

\* the connection is lost (or closed by the broker after a refusal) and
\* loop_forever calls on_disconnect; the broker drops the session
Loop_OnDisconnect ==
    /\ mqtt_pc = "s167"
    /\ conn \in {"tcp", "up", "refused"}
    /\ OnDisconnect
    /\ conn' = "closed"
    /\ subscriptions' = 0
    /\ Interfere
    /\ UNCHANGED <<model_loaded, now, mqtt_pc, mqttLocals, wake_at, pollVars, ghostVars>>

\* a message on TOPIC arrives and loop_forever calls on_message(msg)
Receive(payloads, more) ==
    /\ mqtt_pc = "s167"
    /\ conn = "up"
    /\ subscriptions > 0
    /\ more
    /\ \E pl \in payloads : msg' = pl
    /\ at_entry' = latest_data
    /\ mqtt_pc' = "m121"
    /\ Interfere
    /\ UNCHANGED <<latest_data, model_loaded, now, probability, netVars, pollVars, ghostVars>>

\* the frame of one step of on_message
HandlerStep ==
    /\ Interfere
    /\ UNCHANGED <<model_loaded, now, msg, at_entry, netVars, pollVars, ghostVars>>

\* data = json.loads(msg.payload.decode()); latest_data["data"] = data
\* (from here on the local data is latest_data.data: nothing else writes it)
OnMessage_l121 ==
    /\ mqtt_pc = "m121"
    /\ LET data == JsonLoads(msg) IN
         IF data = Raise
         THEN /\ mqtt_pc' = "m151"
              /\ UNCHANGED latest_data
         ELSE /\ mqtt_pc' = "m124"
              /\ latest_data' = [latest_data EXCEPT !.data = data]
    /\ HandlerStep
    /\ UNCHANGED probability

\* latest_data["timestamp"] = time.time()
OnMessage_l124 ==
    /\ mqtt_pc = "m124"
    /\ latest_data' = [latest_data EXCEPT !.timestamp = Num(now)]
    /\ mqtt_pc' = "m126"
    /\ HandlerStep
    /\ UNCHANGED probability

\* latest_data["history"][key].append(data.get(key)): None for an absent field
AppendFieldNoDefault(key, next) ==
    LET v == Get(latest_data.data, key, None) IN
    IF v = Raise
    THEN /\ mqtt_pc' = "m151"
         /\ UNCHANGED latest_data
    ELSE /\ mqtt_pc' = next
         /\ latest_data' = [latest_data EXCEPT
                !.history[key] = DequeAppend(latest_data.history[key], v)]

\* latest_data["history"][key].append(data.get(key, 0))
AppendField(key, next) ==
    LET v == Get(latest_data.data, key, Num(0)) IN
    IF v = Raise
    THEN /\ mqtt_pc' = "m151"
         /\ UNCHANGED latest_data
    ELSE /\ mqtt_pc' = next
         /\ latest_data' = [latest_data EXCEPT
                !.history[key] = DequeAppend(latest_data.history[key], v)]

OnMessage_l126 ==
    /\ mqtt_pc = "m126"
    /\ AppendField("temperature_C", "m127")
    /\ HandlerStep
    /\ UNCHANGED probability

OnMessage_l127 ==
    /\ mqtt_pc = "m127"
    /\ AppendField("humidity_percent", "m128")
    /\ HandlerStep
    /\ UNCHANGED probability

OnMessage_l128 ==
    /\ mqtt_pc = "m128"
    /\ AppendField("pressure_hPa", "m129")
    /\ HandlerStep
    /\ UNCHANGED probability

OnMessage_l129 ==
    /\ mqtt_pc = "m129"
    /\ AppendField("soil_moisture_percent", "m130")
    /\ HandlerStep
    /\ UNCHANGED probability

\* latest_data["history"]["timestamps"].append(time.strftime("%H:%M:%S"))
OnMessage_l130 ==
    /\ mqtt_pc = "m130"
    /\ latest_data' = [latest_data EXCEPT
            !.history["timestamps"] = DequeAppend(latest_data.history["timestamps"], StrfTime(now))]
    /\ mqtt_pc' = "m133"
    /\ HandlerStep
    /\ UNCHANGED probability

\* soil_moisture = data.get('soil_moisture_percent', 100)
\* latest_data["water_needed"] = soil_moisture < SOIL_MOISTURE_THRESHOLD
OnMessage_l133 ==
    /\ mqtt_pc = "m133"
    /\ LET soil_moisture == Get(latest_data.data, "soil_moisture_percent", Num(SOIL_DEFAULT_IN_CHECK))
           needed == IF soil_moisture = Raise THEN Raise
                     ELSE LessThan(soil_moisture, SOIL_MOISTURE_THRESHOLD)
       IN IF needed = Raise
          THEN /\ mqtt_pc' = "m151"
               /\ UNCHANGED latest_data
          ELSE /\ mqtt_pc' = "m136"
               /\ latest_data' = [latest_data EXCEPT !.water_needed = needed.v]
    /\ HandlerStep
    /\ UNCHANGED probability

\* the classifier gives one of outcomes; latest_data["prediction"] is
\* written with its label, or with "Error" when it raised
Classify(outcomes) ==
    \E out \in outcomes :
        /\ probability' = out
        /\ IF out = Raise
           THEN /\ latest_data' = [latest_data EXCEPT !.prediction = "Error"]
                /\ mqtt_pc' = "m147"
           ELSE /\ latest_data' = [latest_data EXCEPT
                      !.prediction = IF out.cls = 1 THEN "Anomaly" ELSE "Normal"]
                /\ mqtt_pc' = "m143"

\* if model is not None: the classifier runs, else nothing is written
ClassifyIfLoaded(outcomes) ==
    /\ mqtt_pc = "m136"
    /\ IF ~model_loaded
       THEN /\ mqtt_pc' = "m149"
            /\ UNCHANGED <<latest_data, probability>>
       ELSE Classify(outcomes)
    /\ HandlerStep

\* the test of line 136 left out: with no model, model.predict raises
\* AttributeError and the inner except clause writes "Error"
OnMessage_l136_NoModelCheck ==
    /\ mqtt_pc = "m136"
    /\ Classify(IF model_loaded THEN ClassifierOutcomes ELSE {Raise})
    /\ HandlerStep

\* the inner try left out: an exception of the classifier reaches the outer
\* except clause
OnMessage_l136_NoInnerTry ==
    /\ mqtt_pc = "m136"
    /\ IF ~model_loaded
       THEN /\ mqtt_pc' = "m149"
            /\ UNCHANGED <<latest_data, probability>>
       ELSE \E out \in ClassifierOutcomes :
            /\ probability' = out
            /\ IF out = Raise
               THEN /\ mqtt_pc' = "m151"
                    /\ UNCHANGED latest_data
               ELSE /\ latest_data' = [latest_data EXCEPT
                          !.prediction = IF out.cls = 1 THEN "Anomaly" ELSE "Normal"]
                    /\ mqtt_pc' = "m143"
    /\ HandlerStep

OnMessage_l136 == ClassifyIfLoaded(ClassifierOutcomes)

\* the same step with the classifier's outcomes drawn from GradedOutcomes
OnMessage_l136_Graded == ClassifyIfLoaded(GradedOutcomes)

\* latest_data["probability"] = round(probability[1] * 100, 1)
OnMessage_l143 ==
    /\ mqtt_pc = "m143"
    /\ latest_data' = [latest_data EXCEPT !.probability = Round1(probability.p1)]
    /\ mqtt_pc' = "m149"
    /\ HandlerStep
    /\ UNCHANGED probability

\* line 147 left out: the confidence of an earlier record stays
OnMessage_l147_KeepProbability ==
    /\ mqtt_pc = "m147"
    /\ mqtt_pc' = "m149"
    /\ HandlerStep
    /\ UNCHANGED <<latest_data, probability>>

\* latest_data["probability"] = 0.0
OnMessage_l147 ==
    /\ mqtt_pc = "m147"
    /\ latest_data' = [latest_data EXCEPT !.probability = 0]
    /\ mqtt_pc' = "m149"
    /\ HandlerStep
    /\ UNCHANGED probability

\* on_message without its outer except clause: the exception of a payload
\* that cannot be handled leaves the callback and loop_forever, and
\* start_mqtt builds a new client
OnMessage_ReturnOrPropagate ==
    /\ mqtt_pc \in {"m149", "m151"}
    /\ mqtt_pc' = IF mqtt_pc = "m151" THEN "s162" ELSE "s167"
    /\ msg' = NoMsg
    /\ at_entry' = NoEntry
    /\ probability' = None
    /\ Publish(latest_data)
    /\ Interfere
    /\ UNCHANGED <<latest_data, model_loaded, now, netVars, pollVars>>

\* print(...) and on_message returns to loop_forever: after the last
\* statement of the try block (m149) or from the except clause (m151)
OnMessage_Return ==
    /\ mqtt_pc \in {"m149", "m151"}
    /\ mqtt_pc' = "s167"
    /\ msg' = NoMsg
    /\ at_entry' = NoEntry
    /\ probability' = None
    /\ Publish(latest_data)
    /\ Interfere
    /\ UNCHANGED <<latest_data, model_loaded, now, netVars, pollVars>>

\* One second passes.  Callbacks and polls take far less than a second: the
\* clock moves only between them.
TickTo(limit) ==
    /\ now < limit
    /\ ~InHandler
    /\ ~PollActive
    /\ now' = now + 1
    /\ Interfere
    /\ UNCHANGED <<latest_data, model_loaded, mqtt_pc, mqttLocals, netVars, pollVars, ghostVars>>

Tick == TickTo(MaxTime)

TickShort == TickTo(MaxShortTime)


\* ------------------------------------- the UI thread: update_dashboard

\* a poll that takes the record away once it has read it
PollStepConsuming ==
    /\ latest_data' = [latest_data EXCEPT !.data = None]
    /\ UNCHANGED <<model_loaded, now, mqtt_pc, mqttLocals, netVars, published>>

\* the frame of one step of update_dashboard
PollStep == UNCHANGED <<latest_data, model_loaded, now, mqtt_pc, mqttLocals, netVars, published>>

\* Clock calls update_dashboard: data = latest_data.get("data"); if data:
Poll_l796 ==
    /\ poll_pc = "idle"
    /\ p' = [p EXCEPT !.data = latest_data.data]
    /\ poll_pc' = IF Truthy(latest_data.data) THEN "p799" ELSE "p815"
    /\ cands' = {published}
    /\ interleaved' = FALSE
    /\ PollStep
    /\ UNCHANGED ui

\* SensorCard.update_value(data.get(key, 0)) for the four cards
SensorTexts(data) == [x \in Fields |->
    LET v == Get(data, x, Num(0)) IN IF v = Raise THEN Raise ELSE Format1f(v)]

Poll_l799 ==
    /\ poll_pc = "p799"
    /\ IF \E x \in Fields : SensorTexts(p.data)[x] = Raise
       THEN /\ poll_pc' = "crashed"
            /\ UNCHANGED ui
       ELSE /\ poll_pc' = "p805"
            /\ ui' = [ui EXCEPT !.sensors = Obj(SensorTexts(p.data))]
    /\ PollStep
    /\ UNCHANGED <<p, cands, interleaved>>

\* latest_data.get("prediction", "N/A")
Poll_l805 ==
    /\ poll_pc = "p805"
    /\ p' = [p EXCEPT !.prediction = latest_data.prediction]
    /\ poll_pc' = "p806"
    /\ PollStep
    /\ UNCHANGED <<ui, cands, interleaved>>

\* latest_data.get("probability", 0.0); MLPredictionCard.update_prediction
Poll_l806 ==
    /\ poll_pc = "p806"
    /\ p' = [p EXCEPT !.probability = latest_data.probability]
    /\ ui' = [ui EXCEPT !.prediction = p.prediction, !.probability = latest_data.probability]
    /\ poll_pc' = "p809"
    /\ PollStep
    /\ UNCHANGED <<cands, interleaved>>

\* time_since_last = time.time() - latest_data.get("timestamp", 0):
\* TypeError while the timestamp is None
Poll_l809 ==
    /\ poll_pc = "p809"
    /\ IF latest_data.timestamp = None
       THEN /\ poll_pc' = "crashed"
            /\ UNCHANGED p
       ELSE /\ poll_pc' = "p810"
            /\ p' = [p EXCEPT !.timestamp = latest_data.timestamp,
                              !.time_since_last = now - latest_data.timestamp.v]
    /\ PollStep
    /\ UNCHANGED <<ui, cands, interleaved>>

StatusText(connected) == IF connected THEN "CONNECTED" ELSE "DISCONNECTED"

\* latest_data.get("connected", False) and time_since_last < 5
EffectivelyConnected(flag, time_since_last) == flag /\ time_since_last < LIVE_WINDOW

\* connected = ...; self.status_card.update_status(connected)
Poll_l810 ==
    /\ poll_pc = "p810"
    /\ ui' = [ui EXCEPT !.status =
            StatusText(EffectivelyConnected(latest_data.connected, p.time_since_last))]
    /\ poll_pc' = "p661"
    /\ PollStep
    /\ UNCHANGED <<p, cands, interleaved>>

\* update_chart: if len(history["temperature_C"]) > 0: x_range = range(len(...))
Poll_l661 ==
    /\ poll_pc = "p661"
    /\ LET n == Len(latest_data.history["temperature_C"]) IN
         IF n = 0
         THEN /\ poll_pc' = "done"
              /\ ui' = [ui EXCEPT !.chart = "empty"]
              /\ UNCHANGED p
         ELSE /\ poll_pc' = "p665"
              /\ p' = [p EXCEPT !.x_len = n]
              /\ UNCHANGED ui
    /\ PollStep
    /\ UNCHANGED <<cands, interleaved>>

\* self.ax.plot(x_range, list(history[key]), ...): matplotlib raises when the
\* two lengths differ, update_chart catches it and draws nothing
Plot(key, next) ==
    IF Len(latest_data.history[key]) # p.x_len
    THEN /\ poll_pc' = "done"
         /\ ui' = [ui EXCEPT !.chart = "error"]
    ELSE /\ poll_pc' = next
         /\ UNCHANGED ui

Poll_l665 ==
    /\ poll_pc = "p665"
    /\ Plot("temperature_C", "p668")
    /\ PollStep
    /\ UNCHANGED <<p, cands, interleaved>>

Poll_l668 ==
    /\ poll_pc = "p668"
    /\ Plot("humidity_percent", "p671")
    /\ PollStep
    /\ UNCHANGED <<p, cands, interleaved>>

\* the third plot, then self.canvas_widget.draw()
Poll_l671 ==
    /\ poll_pc = "p671"
    /\ IF Len(latest_data.history["soil_moisture_percent"]) # p.x_len
       THEN ui' = [ui EXCEPT !.chart = "error"]
       ELSE ui' = [ui EXCEPT !.chart = "drawn"]
    /\ poll_pc' = "done"
    /\ PollStep
    /\ UNCHANGED <<p, cands, interleaved>>

\* else: self.status_card.update_status(False)
Poll_l815 ==
    /\ poll_pc = "p815"
    /\ ui' = [ui EXCEPT !.status = StatusText(FALSE)]
    /\ poll_pc' = "done"
    /\ PollStep
    /\ UNCHANGED <<p, cands, interleaved>>

\* update_dashboard returns
Poll_Return ==
    /\ poll_pc = "done"
    /\ poll_pc' = "idle"
    /\ p' = PollIdle
    /\ cands' = {}
    /\ interleaved' = FALSE
    /\ PollStep
    /\ UNCHANGED ui

\* -------------------------------------------------------- specifications

StartMqtt ==
    \/ StartMqtt_NewClient
    \/ StartMqtt_Connect
    \/ StartMqtt_ConnectFail
    \/ StartMqtt_LoopRaise
    \/ StartMqtt_Wake

Callbacks ==
    \/ Loop_Reconnect
    \/ Loop_OnConnect
    \/ Loop_OnDisconnect

OnMessage ==
    \/ OnMessage_l121
    \/ OnMessage_l124
    \/ OnMessage_l126
    \/ OnMessage_l127
    \/ OnMessage_l128
    \/ OnMessage_l129
    \/ OnMessage_l130
    \/ OnMessage_l133
    \/ OnMessage_l136
    \/ OnMessage_l143
    \/ OnMessage_l147
    \/ OnMessage_Return

UpdateDashboard ==
    \/ Poll_l796
    \/ Poll_l799
    \/ Poll_l805
    \/ Poll_l806
    \/ Poll_l809
    \/ Poll_l810
    \/ Poll_l661
    \/ Poll_l665
    \/ Poll_l668
    \/ Poll_l671
    \/ Poll_l815
    \/ Poll_Return

\* An exception that leaves update_dashboard ends the Kivy application, and
\* with it the daemon thread.
Running == poll_pc # "crashed"

\* The subscriber thread with the clock: connect failures, lost
\* connections, exceptions out of loop_forever and the back-off, with
\* well-formed readings and one payload that does not parse.  The UI thread
\* writes nothing the subscriber reads, so it is left out here.
ReceiveSome ==
    Receive(WellFormedPayloads \cup {Text(Invalid)},
            Len(latest_data.history["timestamps"]) < MaxHist)

Next ==
    \/ StartMqtt
    \/ Callbacks
    \/ ReceiveSome
    \/ OnMessage
    \/ Tick

Spec == Init /\ [][Next]_vars

\* The subscriber thread on payloads of every kind, for a few seconds and
\* with no exception out of connect or loop_forever.
ReceiveAny == Receive(Payloads, Len(latest_data.history["timestamps"]) < MaxHist)

NextIngest ==
    \/ StartMqtt_NewClient
    \/ StartMqtt_Connect
    \/ Callbacks
    \/ ReceiveAny
    \/ OnMessage
    \/ TickShort

SpecIngest == Init /\ [][NextIngest]_vars

\* The two threads together, within one second and with no exception out of
\* connect or loop_forever: the polls interleave with every step of the
\* callbacks.
ReceivePoll == Receive(Payloads, Len(latest_data.history["timestamps"]) < MaxPollHist)

NextPoll ==
    /\ Running
    /\ \/ StartMqtt_NewClient
       \/ StartMqtt_Connect
       \/ Callbacks
       \/ ReceivePoll
       \/ OnMessage
       \/ UpdateDashboard

SpecPoll == Init /\ [][NextPoll]_vars

\* The two threads and the clock, for well-formed readings.
ReceiveWellFormed ==
    Receive(WellFormedPayloads, Len(latest_data.history["timestamps"]) < MaxPollHist)

NextTimed ==
    /\ Running
    /\ \/ StartMqtt_NewClient
       \/ StartMqtt_Connect
       \/ Callbacks
       \/ ReceiveWellFormed
       \/ OnMessage
       \/ UpdateDashboard
       \/ Tick

SpecTimed == Init /\ [][NextTimed]_vars

\* A burst of complete readings on one connection, as many as arrive: the
\* histories fill up and wrap.
ReceiveBurst == Receive({Text(DryReading)}, TRUE)

NextCap ==
    \/ StartMqtt_NewClient
    \/ StartMqtt_Connect
    \/ Loop_OnConnect
    \/ ReceiveBurst
    \/ OnMessage

SpecCap == Init /\ [][NextCap]_vars

\* One connection delivering complete readings whose soil moisture lies
\* around the threshold and outside 0..100.
ReceiveThreshold ==
    Receive(ThresholdPayloads, Len(latest_data.history["timestamps"]) < MaxHist)

NextThreshold ==
    \/ StartMqtt_NewClient
    \/ StartMqtt_Connect
    \/ Loop_OnConnect
    \/ ReceiveThreshold
    \/ OnMessage

SpecThreshold == Init /\ [][NextThreshold]_vars

\* One connection delivering complete readings to a classifier whose
\* outcomes range over GradedOutcomes.
ReceiveOne == Receive({Text(DryReading)}, Len(latest_data.history["timestamps"]) < MaxHist)

NextClassify ==
    \/ StartMqtt_NewClient
    \/ StartMqtt_Connect
    \/ Loop_OnConnect
    \/ ReceiveOne
    \/ OnMessage_l121
    \/ OnMessage_l124
    \/ OnMessage_l126
    \/ OnMessage_l127
    \/ OnMessage_l128
    \/ OnMessage_l129
    \/ OnMessage_l130
    \/ OnMessage_l133
    \/ OnMessage_l136_Graded
    \/ OnMessage_l143
    \/ OnMessage_l147
    \/ OnMessage_Return

SpecClassify == Init /\ [][NextClassify]_vars

\* The two threads on complete readings and empty objects, with every
\* connection callback.
ReceiveRead ==
    Receive({Text(DryReading), Text(EmptyDict)},
            Len(latest_data.history["timestamps"]) < MaxPollHist)

NextRead ==
    /\ Running
    /\ \/ StartMqtt_NewClient
       \/ StartMqtt_Connect
       \/ Callbacks
       \/ ReceiveRead
       \/ OnMessage
       \/ UpdateDashboard

SpecRead == Init /\ [][NextRead]_vars

\* One connection delivering the numbered records 1, 2, ... in this order:
\* the record that arrives is the successor of the latest one stored.
NextSerial ==
    IF latest_data.data = None THEN 1
    ELSE latest_data.data.f["temperature_C"].v + 1

ReceiveSerial == Receive({Text(SerialReading(NextSerial))}, NextSerial <= MaxSerial)

NextFifo ==
    \/ StartMqtt_NewClient
    \/ StartMqtt_Connect
    \/ Loop_OnConnect
    \/ ReceiveSerial
    \/ OnMessage

SpecFifo == Init /\ [][NextFifo]_vars

\* The subscriber thread never stops being scheduled, and the clock runs
\* (up to MaxTime, which EnterSleep takes into account).
Fairness ==
    /\ WF_vars(StartMqtt_NewClient)
    /\ WF_vars(StartMqtt_Wake)
    /\ WF_vars(OnMessage)
    /\ WF_vars(Tick)

\* The same thread under fairness, with one reading and one payload that
\* does not parse.
ReceiveLive ==
    Receive({Text(DryReading), Text(Invalid)},
            Len(latest_data.history["timestamps"]) < MaxHist)

NextLive ==
    \/ StartMqtt
    \/ Callbacks
    \/ ReceiveLive
    \/ OnMessage
    \/ Tick

SpecLive == Init /\ [][NextLive]_vars /\ Fairness


\* --------------------------------------------------------------- claims

Returning == mqtt_pc \in {"m149", "m151"}

\* C1: a poll that has completed, once no callback is part-way, has read a
\* record, timestamp, prediction and probability that latest_data held
\* together when a callback had returned: no new record paired with the
\* prediction left by an earlier message.
C1_PollSeesOneMessage ==
    (poll_pc = "done" /\ Truthy(p.data) /\ ~InHandler)
        => <<p.data, p.timestamp, p.prediction, p.probability>> \in cands

\* C2: in every state, part-way through on_message included, the five
\* history sequences have the same length.
C2_EqualLengths ==
    \A x \in HistoryKeys, y \in HistoryKeys :
        Len(latest_data.history[x]) = Len(latest_data.history[y])

\* C3: after any sequence of messages each of the five history sequences
\* holds at most 50 entries.
C3_AtMost50 == \A x \in HistoryKeys : Len(latest_data.history[x]) <= MAXLEN

\* a message was handled when the histories were already full
C3_Witness ==
    /\ mqtt_pc = "m149"
    /\ \A x \in HistoryKeys : Len(at_entry.history[x]) = MAXLEN

C5_BackoffMeansDisconnected == (mqtt_pc = "s170") => ~latest_data.connected

\* What on_message must leave in the histories for a well-formed reading.
Ingested(before, reading, t) ==
    [x \in HistoryKeys |->
        IF x = "timestamps" THEN DequeAppend(before[x], StrfTime(t))
        ELSE DequeAppend(before[x], Get(reading, x, Num(0)))]

\* C6: at most one subscription is ever active, a connection that is up is
\* subscribed, and a well-formed message is handled to the end with exactly
\* one entry appended to each history sequence, also after a reconnection.
C6_OneSubscriptionExactlyOnce ==
    /\ subscriptions <= 1
    /\ (mqtt_pc = "s167" /\ conn = "up") => subscriptions = 1
    /\ (mqtt_pc = "m151") => msg \notin WellFormedPayloads
    /\ (mqtt_pc = "m149" /\ msg \in WellFormedPayloads)
          => latest_data.history = Ingested(at_entry.history, msg.json, now)

\* a message handled after a back-off and a reconnection, a first one
\* having been handled before the failure
C6_Witness ==
    /\ mqtt_pc = "m149"
    /\ msg \in WellFormedPayloads
    /\ wake_at > 0
    /\ Len(at_entry.history["timestamps"]) = 1

\* C7: the status a poll shows is CONNECTED exactly when the connected flag
\* is true and the last message is less than 5 seconds old (the poll is
\* compared with the shared state it ran on: no callback is part-way and
\* nothing else moved since the poll began).
C7_StatusIsConnectedAndFresh ==
    (poll_pc = "done" /\ ~interleaved /\ ~InHandler)
        => ui.status = StatusText(
               /\ latest_data.connected
               /\ latest_data.timestamp # None
               /\ now - latest_data.timestamp.v < LIVE_WINDOW)

\* C8: when on_message returns from a payload that is valid JSON but not an
\* object, latest_data is as it was when the message arrived.
C8_NonObjectDiscarded ==
    (Returning /\ msg \in NonObjectPayloads) => latest_data = at_entry

\* C9: when on_message returns from an object payload with a non-numeric
\* sensor field, latest_data is as it was when the message arrived.
C9_WrongTypeDiscarded ==
    (Returning /\ msg \in WrongTypePayloads) => latest_data = at_entry

\* C10: when on_message returns from a payload that is not UTF-8 or not
\* JSON, latest_data (connected flag included) is as it was when the message
\* arrived.
C10_UnparseableLeavesState ==
    (Returning /\ msg \in UnparseablePayloads) => latest_data = at_entry

\* a payload that is not UTF-8 was dropped after a reading had been stored
C10_Witness ==
    /\ mqtt_pc = "m151"
    /\ ~msg.utf8
    /\ latest_data.timestamp # None
    /\ Len(latest_data.history["timestamps"]) > 0

\* The payloads the Message Codec calls malformed: not UTF-8, not JSON, not
\* an object, or an object with a sensor field that is not a number.
MalformedPayloads == UnparseablePayloads \cup NonObjectPayloads \cup WrongTypePayloads

\* C11: a malformed payload never starts the reconnect logic and never stops
\* the receive loop: when on_message has handled one, the connection is up
\* and subscribed as before and the connected flag is as it was, the next
\* step is the return into loop_forever with the connection untouched, and a
\* well-formed message that follows is stored whole (latest record, arrival
\* time, one entry in each history).
C11_MalformedKeepsLoopRunning ==
    /\ [](/\ (Returning /\ msg \in MalformedPayloads)
               => /\ latest_data.connected = at_entry.connected
                  /\ conn = "up"
                  /\ subscriptions = 1
          /\ (mqtt_pc = "m151") => msg \in MalformedPayloads
          /\ (mqtt_pc = "m149" /\ msg \in WellFormedPayloads)
               => /\ latest_data.data = msg.json
                  /\ latest_data.timestamp = Num(now)
                  /\ latest_data.history = Ingested(at_entry.history, msg.json, now))
    /\ [][(Returning /\ msg \in MalformedPayloads)
             => /\ mqtt_pc' = "s167"
                /\ UNCHANGED netVars
                /\ latest_data' = latest_data]_vars

\* a well-formed message handled to the end right after a payload that was
\* not an object
C11_Witness ==
    /\ mqtt_pc = "m149"
    /\ msg \in WellFormedPayloads
    /\ at_entry.data = Num(7)
    /\ latest_data.connected

\* on_message has evaluated the irrigation rule for the record in
\* latest_data.data
Evaluated == latest_data.data.k = "obj" /\ (~InHandler \/ mqtt_pc = "m149")

\* C12: once a record carrying soil_moisture_percent v is ingested,
\* water_needed is exactly v < 30.0: true at 29.9, false at 30.0 and at
\* 30.1, true below 0 and false above 100 (the value is compared as it
\* came, not clamped).
C12_WaterNeededIsBelowThreshold ==
    (Evaluated /\ "soil_moisture_percent" \in DOMAIN latest_data.data.f)
        => LET v == latest_data.data.f["soil_moisture_percent"].v IN
           /\ latest_data.water_needed = (v < 300)
           /\ (v = 299) => latest_data.water_needed
           /\ (v \in {300, 301}) => ~latest_data.water_needed
           /\ (v < 0) => latest_data.water_needed
           /\ (v > 1000) => ~latest_data.water_needed

\* a reading of exactly 30.0 switched water_needed off after a drier one
C12_Witness ==
    /\ mqtt_pc = "m149"
    /\ msg = Text(SoilReading(300))
    /\ at_entry.water_needed
    /\ ~latest_data.water_needed

\* the newest entry of a history sequence
Newest(q) == q[Len(q)]

\* C13: when on_message has handled a well-formed record to the end,
\* water_needed says whether the soil value it has just appended to the
\* soil_moisture_percent history (0 for a record without the field) is
\* below 30.0.
C13_WaterNeededMatchesHistory ==
    (mqtt_pc = "m149" /\ msg \in WellFormedPayloads)
        => latest_data.water_needed
             = (Newest(latest_data.history["soil_moisture_percent"]).v
                    < SOIL_MOISTURE_THRESHOLD)

\* C14: when no classifier was loaded at startup, in every reachable state
\* the inference result is the label of an unavailable classifier ("N/A",
\* the initial label, which nothing overwrites) with confidence 0.
C14_NoModelMeansUnavailable ==
    ~model_loaded => (latest_data.prediction = "N/A" /\ latest_data.probability = 0)

\* a well-formed record was handled to the end with no classifier loaded
C14_Witness ==
    /\ ~model_loaded
    /\ mqtt_pc = "m149"
    /\ msg = Text(DryReading)
    /\ latest_data.data = DryReading

\* C15: when on_message has handled a record to the end with a classifier
\* loaded, the result is "Error" with confidence 0 if the classifier raised
\* for this record, and the label and confidence of this record's own
\* outcome if it did not, whatever the result of the record before; the
\* record was taken in once (one new entry in the history).
C15_ErrorIsLocalToRecord ==
    (mqtt_pc = "m149" /\ model_loaded)
        => /\ (probability = Raise)
                => (latest_data.prediction = "Error" /\ latest_data.probability = 0)
           /\ (probability # Raise /\ probability.p1 = 8734)
                => (latest_data.prediction = "Anomaly" /\ latest_data.probability = 873)
           /\ (probability # Raise /\ probability.p1 = 1266)
                => (latest_data.prediction = "Normal" /\ latest_data.probability = 127)
           /\ Len(latest_data.history["timestamps"])
                 = Len(at_entry.history["timestamps"]) + 1

\* the classifier succeeded for the record that followed one it had failed on
C15_Witness ==
    /\ mqtt_pc = "m149"
    /\ probability # Raise
    /\ at_entry.prediction = "Error"
    /\ at_entry.probability = 0
    /\ latest_data.prediction = "Anomaly"
    /\ latest_data.probability = 873

\* C16: no classifier, or a classifier that raises, does not keep a
\* well-formed record from being ingested: on_message never ends in its
\* except clause for it, and at the end the record is the latest record, each
\* history has its one new entry and, for a record carrying a soil value,
\* water_needed is that value < 30.0.
C16_ClassifierNeverBlocksIngestion ==
    /\ (msg \in WellFormedPayloads) => mqtt_pc # "m151"
    /\ (mqtt_pc = "m149" /\ msg \in WellFormedPayloads
            /\ (~model_loaded \/ probability = Raise))
          => /\ latest_data.data = msg.json
             /\ latest_data.history = Ingested(at_entry.history, msg.json, now)
             /\ ("soil_moisture_percent" \in DOMAIN msg.json.f)
                   => latest_data.water_needed
                        = (msg.json.f["soil_moisture_percent"].v < SOIL_MOISTURE_THRESHOLD)

\* the classifier raised for a dry reading, which was stored and switched
\* water_needed on
C16_Witness ==
    /\ mqtt_pc = "m149"
    /\ probability = Raise
    /\ msg = Text(DryReading)
    /\ latest_data.data = DryReading
    /\ ~at_entry.water_needed
    /\ latest_data.water_needed

\* C17: when on_message has handled a record for which the classifier
\* succeeded, the label is "Anomaly" for class 1 and "Normal" for class 0,
\* and the confidence is the tenth of a percent nearest to the probability
\* of class 1, between 0 and 100; class 1 with probability 0.873 gives
\* "Anomaly" and 87.3.
C17_LabelAndConfidence ==
    (mqtt_pc = "m149" /\ model_loaded /\ probability # Raise)
        => /\ (probability.cls = 1) => latest_data.prediction = "Anomaly"
           /\ (probability.cls = 0) => latest_data.prediction = "Normal"
           /\ latest_data.probability \in 0..1000
           /\ 10 * latest_data.probability - probability.p1 \in -4..4
           /\ (probability.cls = 1 /\ probability.p1 = 8730)
                => (latest_data.prediction = "Anomaly" /\ latest_data.probability = 873)

\* class 1 with probability 0.873, after a record classified 0 with
\* probability 0.1266 (confidence 12.7)
C17_Witness ==
    /\ mqtt_pc = "m149"
    /\ probability = [k |-> "ok", cls |-> 1, p1 |-> 8730]
    /\ latest_data.prediction = "Anomaly"
    /\ latest_data.probability = 873
    /\ at_entry.prediction = "Normal"
    /\ at_entry.probability = 127

\* C18: update_dashboard never raises: whatever payloads (well-formed,
\* unparseable, non-object, wrong-typed) and connection events came before
\* and wherever on_message is, a poll runs to its end.
C18_PollNeverRaises == poll_pc # "crashed"

\* the value a record must yield for a field: the payload's, or 0
FieldOrZero(reading, x) == IF x \in DOMAIN reading.f THEN reading.f[x] ELSE Num(0)

\* C19: when on_message has handled a well-formed record to the end, the
\* newest entry of each of the four field histories, and the value
\* data.get(field, 0) reads back from the latest record, is the payload's
\* value for a field that is present and 0 for one that is absent.
C19_StoredValuesArePayloadValues ==
    (mqtt_pc = "m149" /\ msg \in WellFormedPayloads)
        => \A x \in Fields :
              /\ Newest(latest_data.history[x]) = FieldOrZero(msg.json, x)
              /\ Get(latest_data.data, x, Num(0)) = FieldOrZero(msg.json, x)

\* a record without pressure and soil fields: 18.7 and 55.0 stored as they
\* came, 0 for the two absent fields
C19_Witness ==
    /\ mqtt_pc = "m149"
    /\ msg = Text(NoSoilReading)
    /\ Newest(latest_data.history["temperature_C"]) = Num(187)
    /\ Newest(latest_data.history["humidity_percent"]) = Num(550)
    /\ Newest(latest_data.history["pressure_hPa"]) = Num(0)
    /\ Newest(latest_data.history["soil_moisture_percent"]) = Num(0)

\* C20: the poller only reads.  No step of update_dashboard or update_chart
\* changes latest_data (record, timestamp, connected flag, prediction,
\* probability, water_needed, the five histories), and every step that
\* changes it is a step of a subscriber callback that leaves the poll where
\* it is.
C20_PollOnlyReads ==
    [][/\ (poll_pc' # poll_pc) => (latest_data' = latest_data)
       /\ (latest_data' # latest_data)
             => /\ InHandler \/ mqtt_pc = "s167"
                /\ UNCHANGED pollVars]_vars

\* a poll has run to its end on a stored record: sensors shown, chart drawn
C20_Witness ==
    /\ poll_pc = "done"
    /\ ui.chart = "drawn"
    /\ ui.sensors # None
    /\ latest_data.data = p.data
    /\ Len(latest_data.history["timestamps"]) = 1

\* the smaller of two numbers
Min(a, b) == IF a < b THEN a ELSE b

\* C21: after the records numbered 1..k have been ingested, each field
\* history holds the records k - min(k, 50) + 1 .. k in this order; and
\* each record is added at the end, a full history giving up exactly its
\* oldest entry and keeping the others in place.
C21_MostRecentInArrivalOrder ==
    /\ (~InHandler /\ latest_data.data # None)
          => LET k == latest_data.data.f["temperature_C"].v IN
             \A x \in Fields :
                /\ Len(latest_data.history[x]) = Min(k, 50)
                /\ \A i \in 1..Min(k, 50) :
                      latest_data.history[x][i] = Num(k - Min(k, 50) + i)
    /\ (mqtt_pc = "m149")
          => \A x \in Fields :
                latest_data.history[x]
                  = IF Len(at_entry.history[x]) < 50
                    THEN Append(at_entry.history[x], msg.json.f[x])
                    ELSE Append(Tail(at_entry.history[x]), msg.json.f[x])

\* the 52nd record has been ingested: the histories run from record 3 to
\* record 52
C21_Witness ==
    /\ ~InHandler
    /\ latest_data.data = SerialReading(52)
    /\ Len(latest_data.history["soil_moisture_percent"]) = 50
    /\ latest_data.history["soil_moisture_percent"][1] = Num(3)
    /\ latest_data.history["soil_moisture_percent"][50] = Num(52)

\* latest_data without its connected flag
ExceptConnected(d) == [d EXCEPT !.connected = FALSE]

\* C22: a disconnect changes only the connection state.  The step in which
\* loop_forever reports the loss of the connection sets the connected flag
\* to false, and no step outside on_message (a disconnect, a reconnection
\* by loop_forever or by start_mqtt after its back-off, a connection
\* acknowledgement) changes the timestamp, the latest record, the histories,
\* the prediction, the probability or water_needed.
C22_DisconnectKeepsData ==
    [][/\ (mqtt_pc = "s167" /\ conn # "closed" /\ conn' = "closed")
             => ~latest_data'.connected
       /\ (~InHandler)
             => ExceptConnected(latest_data') = ExceptConnected(latest_data)]_vars

\* connected again, by a new client after a back-off, with the record and
\* the timestamp of a message received before the failure still in place
C22_Witness ==
    /\ mqtt_pc = "s167"
    /\ conn = "up"
    /\ latest_data.connected
    /\ wake_at > 0
    /\ latest_data.data = DryReading
    /\ latest_data.timestamp # None
    /\ latest_data.timestamp.v + RETRY_DELAY <= wake_at
    /\ Len(latest_data.history["timestamps"]) = 1

\* C23: after a connection that failed or was lost, the next connect attempt
\* comes only when the 5-second back-off has elapsed: a step that opens a
\* connection after a failure (an earlier back-off was entered) or after a
\* loss (the network loop has seen the connection close) is the connect call
\* of start_mqtt, reached with the time of the back-off behind it.
C23_BackoffBeforeEveryAttempt ==
    [][(/\ conn # "tcp"
        /\ conn' = "tcp"
        /\ (wake_at > 0 \/ mqtt_pc = "s167"))
          => (mqtt_pc = "s166" /\ wake_at > 0 /\ now >= wake_at)]_vars

\* C24: the connected flag goes from false to true only in the step in
\* which the broker accepts the connection (on_connect with rc = 0), and
\* that step subscribes to the topic once; the step in which the broker
\* refuses it (rc # 0) leaves the flag false and subscribes to nothing.
C24_ConnectedOnlyByAcceptedConnect ==
    [][/\ (~latest_data.connected /\ latest_data'.connected)
             => /\ mqtt_pc = "s167"
                /\ conn = "tcp"
                /\ conn' = "up"
                /\ subscriptions' = subscriptions + 1
       /\ (conn = "tcp" /\ conn' = "up")
             => (latest_data'.connected /\ subscriptions' = subscriptions + 1)
       /\ (conn = "tcp" /\ conn' = "refused")
             => (~latest_data'.connected /\ subscriptions' = subscriptions)]_vars

\* a new client's connection refused by the broker, after a back-off and
\* after a message had been received on an accepted connection: the flag
\* is false and nothing is subscribed
C24_Witness ==
    /\ conn = "refused"
    /\ ~latest_data.connected
    /\ subscriptions = 0
    /\ wake_at > 0
    /\ latest_data.timestamp # None

\* C25: as long as no message has been ingested (the histories are empty
\* and no callback is part-way), a poll that ran on that state completes,
\* shows DISCONNECTED whatever the connected flag says, and leaves the
\* sensor, prediction and chart displays as they were at startup.
C25_DisconnectedUntilFirstMessage ==
    (/\ Len(latest_data.history["timestamps"]) = 0
     /\ ~InHandler
     /\ ~interleaved
     /\ poll_pc \in {"done", "crashed"})
        => /\ poll_pc = "done"
           /\ ui.status = StatusText(FALSE)
           /\ ui.sensors = InitialUi.sensors
           /\ ui.prediction = InitialUi.prediction
           /\ ui.probability = InitialUi.probability
           /\ ui.chart = InitialUi.chart

====
